---- MODULE Spec2Model ----
(***************************************************************************)
(* Model of server.js: a helper server that confines file operations on a  *)
(* remote hierarchical store (Google Drive) to the subtree of one folder.  *)
(*                                                                         *)
(* The remote store is the variable `files`: a function from the ids of    *)
(* the existing nodes to their records.  Requests are processed as a       *)
(* sequence of awaited store calls; each awaited call is one step.         *)
(***************************************************************************)
EXTENDS Integers, Sequences, FiniteSets, TLC

VARIABLES
  files,     \* the remote store: id -> [name, mimeType, parents, trashed, body]
  failing,   \* ids whose metadata fetch fails (no permission, transient error)
  nextId,    \* the id the store gives to the next created node
  reqs,      \* the requests in flight: slot -> request record
  probe,     \* the last direct call of a helper function and its result
  auth       \* the token file, the 'tokens' handlers and the last refresh event

vars == <<files, failing, nextId, reqs, probe, auth>>

----------------------------------------------------------------------------
(* Program constants                                                       *)

\* hop budget of isDescendant: for (let depth = 0; depth < 30; depth++)
MaxHops == 30

\* pageSize of the children query of the listing: pageSize: 1000
ListPageSize == 1000

\* pageSize of the name query of the search: pageSize: 100
NamePageSize == 100

\* pageSize of the candidates query of the content search: pageSize: 1000
CandidatePageSize == 1000

\* default recursion depth of the listing: parseInt(req.query.depth || '4')
DefaultDepth == 4

\* names and texts are sequences of one-character strings
DRIVE_FOLDER_NAME == <<"P", "s">>

FOLDER == "application/vnd.google-apps.folder"
DOCUMENT == "application/vnd.google-apps.document"
MARKDOWN == "text/markdown"

----------------------------------------------------------------------------
(* Bounds of the model                                                     *)

\* the long chains of DescSpec have MaxHops + ChainExtra links
ChainExtra == 2

\* largest maxDepth asked of the listing in ListSpec
MaxDepthArg == 3

\* the stores of ListSpec have up to ListNodes nodes below the root
ListNodes == 4

\* number of requests the server accepts in one behaviour
NReq == 2

\* longest id list given to /batch-delete
MaxBatch == 2

----------------------------------------------------------------------------
(* Helpers on sequences and sets                                           *)

Min(a, b) == IF a < b THEN a ELSE b

\* the elements of a finite set of naturals in ascending order
SetToSeq(S) ==
  IF S = {} THEN <<>>
  ELSE LET hi == CHOOSE x \in S : \A y \in S : y <= x
       IN SelectSeq([i \in 1..(hi + 1) |-> i - 1], LAMBDA x : x \in S)

Range(s) == {s[i] : i \in 1..Len(s)}

Node(n, m, ps, t, b) ==
  [name |-> n, mimeType |-> m, parents |-> ps, trashed |-> t, body |-> b]

----------------------------------------------------------------------------
(* drive.files.get({fileId, fields: 'id, parents'}) as isDescendant uses   *)
(* it: it throws for an id that does not exist or cannot be fetched.       *)

GetParentsFails(F, fail, id) == id \notin DOMAIN F \/ id \in fail

----------------------------------------------------------------------------
(* isDescendant (server.js 393-414).  toCheck is kept as a set: the code   *)
(* keeps a list with repetitions, but only tests its members and whether   *)
(* it is empty, so the result is the same.                                 *)

\* mutant: the loop runs one level short
isDescendantLoopShort(F, fail, toCheck, rootId, depth) ==
  LET RECURSIVE L(_, _)
      L(tc, d) ==
        IF d >= MaxHops - 1 THEN FALSE
        ELSE LET fetched == {id \in tc : ~GetParentsFails(F, fail, id)}
                 next == UNION {F[id].parents : id \in fetched}
             IN IF rootId \in next THEN TRUE
                ELSE IF next = {} THEN FALSE
                ELSE L(next, d + 1)
  IN L(toCheck, depth)

\* mutant: the loop runs one level too far
isDescendantLoopLong(F, fail, toCheck, rootId, depth) ==
  LET RECURSIVE L(_, _)
      L(tc, d) ==
        IF d >= MaxHops + 1 THEN FALSE
        ELSE LET fetched == {id \in tc : ~GetParentsFails(F, fail, id)}
                 next == UNION {F[id].parents : id \in fetched}
             IN IF rootId \in next THEN TRUE
                ELSE IF next = {} THEN FALSE
                ELSE L(next, d + 1)
  IN L(toCheck, depth)

\* mutant: a failed fetch ends the whole check with a refusal
isDescendantLoopFailClosed(F, fail, toCheck, rootId, depth) ==
  LET RECURSIVE L(_, _)
      L(tc, d) ==
        IF d >= MaxHops THEN FALSE
        ELSE IF \E id \in tc : GetParentsFails(F, fail, id) THEN FALSE
        ELSE LET next == UNION {F[id].parents : id \in tc}
             IN IF rootId \in next THEN TRUE
                ELSE IF next = {} THEN FALSE
                ELSE L(next, d + 1)
  IN L(toCheck, depth)

RECURSIVE isDescendantLoop(_, _, _, _, _)
\* the for loop over depth: one frontier level per iteration
isDescendantLoop(F, fail, toCheck, rootId, depth) ==
  IF depth >= MaxHops THEN FALSE
  ELSE LET fetched == {id \in toCheck : ~GetParentsFails(F, fail, id)}
           next == UNION {F[id].parents : id \in fetched}
       IN IF rootId \in next THEN TRUE
          ELSE IF next = {} THEN FALSE
          ELSE isDescendantLoop(F, fail, next, rootId, depth + 1)

isDescendant(F, fail, candidateId, rootId) ==
  IF candidateId = rootId THEN TRUE
  ELSE isDescendantLoop(F, fail, {candidateId}, rootId, 0)

----------------------------------------------------------------------------
(* The downward listing loop of GET /list and of the list_files tool.      *)

\* drive.files.list({q: `'${id}' in parents and trashed=false`}): the
\* non-trashed direct children, in the store's order (ascending id here), one
\* page of at most pageSize of them (nextPageToken is never followed)
ListChildren(F, id) ==
  LET all == SetToSeq({c \in DOMAIN F : id \in F[c].parents /\ ~F[c].trashed})
  IN SubSeq(all, 1, Min(Len(all), ListPageSize))

\* mutant: a child is tagged with its own depth
ListLoopChildDepth(F, queue, results, maxDepth) ==
  LET RECURSIVE L(_, _)
      L(q, res) ==
        IF q = <<>> THEN res
        ELSE LET node == Head(q)
                 list == ListChildren(F, node.id)
                 emitted == [i \in 1..Len(list) |->
                               [id |-> list[i], depth |-> node.depth + 1]]
                 pushed == SelectSeq(list, LAMBDA c :
                               F[c].mimeType = FOLDER /\ node.depth + 1 < maxDepth)
                 more == [i \in 1..Len(pushed) |->
                               [id |-> pushed[i], depth |-> node.depth + 1]]
             IN L(Tail(q) \o more, res \o emitted)
  IN L(queue, results)

\* mutant: the queue is used as a stack (depth-first)
ListLoopStack(F, queue, results, maxDepth) ==
  LET RECURSIVE L(_, _)
      L(q, res) ==
        IF q = <<>> THEN res
        ELSE LET node == Head(q)
                 list == ListChildren(F, node.id)
                 emitted == [i \in 1..Len(list) |->
                               [id |-> list[i], depth |-> node.depth]]
                 pushed == SelectSeq(list, LAMBDA c :
                               F[c].mimeType = FOLDER /\ node.depth + 1 < maxDepth)
                 more == [i \in 1..Len(pushed) |->
                               [id |-> pushed[i], depth |-> node.depth + 1]]
             IN L(more \o Tail(q), res \o emitted)
  IN L(queue, results)

RECURSIVE ListLoop(_, _, _, _)
\* while (queue.length) { node = queue.shift(); ... }
ListLoop(F, queue, results, maxDepth) ==
  IF queue = <<>> THEN results
  ELSE LET node == Head(queue)
           list == ListChildren(F, node.id)
           emitted == [i \in 1..Len(list) |->
                         [id |-> list[i], depth |-> node.depth]]
           pushed == SelectSeq(list, LAMBDA c :
                         F[c].mimeType = FOLDER /\ node.depth + 1 < maxDepth)
           more == [i \in 1..Len(pushed) |->
                         [id |-> pushed[i], depth |-> node.depth + 1]]
       IN ListLoop(F, Tail(queue) \o more, results \o emitted, maxDepth)

\* the listing after the scope check: queue = [{id: start, depth: 0}]
listScoped(F, start, maxDepth) ==
  ListLoop(F, <<[id |-> start, depth |-> 0]>>, <<>>, maxDepth)

----------------------------------------------------------------------------
(* The token file (server.js 352-374).  A token record is a function from  *)
(* the fields it carries to their values; every value is a JSON string or  *)
(* number, which JSON.stringify and JSON.parse give back as it was.        *)

\* tokens.json does not exist or does not parse: getStoredTokens returns null
NoTokens == [missing |-> TRUE]

TokenValues == 1..2

\* the records the credential client hands over: an access token, with or
\* without a refresh token and an expiry date
TokenRecords ==
  UNION {[D -> TokenValues] :
           D \in {{"access_token"}, {"access_token", "refresh_token"},
                  {"access_token", "expiry_date"},
                  {"access_token", "refresh_token", "expiry_date"}}}

\* fs.writeFileSync(TOKEN_FILE, JSON.stringify(tokens, null, 2))
storeTokens(a, tokens) == [a EXCEPT !.file = tokens]

\* JSON.parse(fs.readFileSync(TOKEN_FILE, 'utf8')), null when that throws
getStoredTokens(a) == a.file

\* mutant: the new record replaces the stored one
MergeOverwrite(existing, toks) == toks

\* { ...existing, ...toks }
Merge(existing, toks) ==
  [f \in DOMAIN existing \cup DOMAIN toks |->
     IF f \in DOMAIN toks THEN toks[f] ELSE existing[f]]

\* the handler getDrive registers: (toks) => { ... storeTokens(merged) }
onTokens(a, toks) ==
  LET stored == getStoredTokens(a)
  IN IF stored = NoTokens THEN storeTokens(a, toks)
     ELSE storeTokens(a, Merge(stored, toks))

RECURSIVE Emit(_, _, _)
\* the emitter calls the n registered handlers one after the other
Emit(a, toks, n) ==
  IF n = 0 THEN a ELSE Emit(onTokens(a, toks), toks, n - 1)

\* getDrive past its throw: oauth2Client.on('tokens', ...) adds a handler
getDrive(a) == [a EXCEPT !.handlers = @ + 1]

\* an authenticated server on which getDrive has not run yet
AuthReady ==
  [file |-> [f \in {"access_token", "refresh_token", "expiry_date"} |-> 1],
   handlers |-> 0, prev |-> NoTokens, event |-> NoTokens,
   events |-> 0, accessOnly |-> 0, kept |-> 0]

----------------------------------------------------------------------------
(* State shared by the specifications                                      *)

Slots == 1..NReq

IdleReq == [pc |-> "idle"]

NoProbe == [fn |-> "none"]

ServerIdle == reqs = [s \in Slots |-> IdleReq]

----------------------------------------------------------------------------
(* DescSpec: isDescendant called directly on a family of store graphs.     *)
(* Node 0 is the root; nodes 1..ChainLen form a chain i -> i-1; OutA and   *)
(* OutB form a cycle that does not contain the root.                       *)

ChainLen == MaxHops + ChainExtra
OutA == ChainLen + 1
OutB == ChainLen + 2
MissingId == ChainLen + 3
DescRoot == 0

\* what node 1 hangs from: the root, nothing, or the end of its own chain
Heads == {"root", "none", "cycle"}

\* nodes that have OutA as a second parent: a branch that leads elsewhere
Decoys == {{}, {1, MaxHops}, 1..ChainLen}

\* <<n, p>>: node n has p as a second parent (<<0, 0>>: no such node)
Shortcuts ==
  {<<0, 0>>, <<MaxHops + 2, MaxHops - 1>>, <<MaxHops + 2, MaxHops>>,
   <<MaxHops + 1, 0>>}

FailSets == {{}, {OutA}, {2}, {DescRoot}, {ChainLen}, {3, OutA}}

ChainParents(i, head, decoys, shortcut) ==
  IF i = DescRoot THEN {}
  ELSE IF i = OutA THEN {OutB}
  ELSE IF i = OutB THEN {OutA}
  ELSE (IF i > 1 THEN {i - 1}
        ELSE IF head = "root" THEN {DescRoot}
        ELSE IF head = "cycle" THEN {ChainLen}
        ELSE {})
       \cup (IF i \in decoys THEN {OutA} ELSE {})
       \cup (IF i = shortcut[1] THEN {shortcut[2]} ELSE {})

ChainStore(head, decoys, shortcut) ==
  [i \in 0..OutB |->
     Node(IF i = DescRoot THEN DRIVE_FOLDER_NAME ELSE <<"x">>, FOLDER,
          ChainParents(i, head, decoys, shortcut), FALSE, <<>>)]

DescInit ==
  /\ \E head \in Heads, decoys \in Decoys, shortcut \in Shortcuts :
       files = ChainStore(head, decoys, shortcut)
  /\ failing \in FailSets
  /\ nextId = MissingId + 1
  /\ ServerIdle
  /\ probe = NoProbe
  /\ auth = AuthReady

DescCall ==
  /\ probe = NoProbe
  /\ \E c \in DOMAIN files \cup {MissingId} :
       probe' = [fn |-> "isDescendant", candidateId |-> c, rootId |-> DescRoot,
                 ret |-> isDescendant(files, failing, c, DescRoot)]
  /\ UNCHANGED <<files, failing, nextId, reqs, auth>>

\* GET /list?parentId=start&depth=maxDepth on the same stores: the scope check
\* of start, then the listing
DescList ==
  /\ probe = NoProbe
  /\ \E start \in DOMAIN files, maxDepth \in 1..MaxDepthArg :
       /\ isDescendant(files, failing, start, DescRoot)
       /\ probe' = [fn |-> "listScoped", start |-> start, maxDepth |-> maxDepth,
                    rootId |-> DescRoot,
                    ret |-> listScoped(files, start, maxDepth)]
  /\ UNCHANGED <<files, failing, nextId, reqs, auth>>

DescNext == DescCall \/ DescList

DescSpec == DescInit /\ [][DescNext]_vars

RECURSIVE Within(_, _, _, _)
\* the nodes that have a chain of at most k parent links to rootId on which
\* every node below the root can be fetched (built downward from the root)
Within(F, fail, rootId, k) ==
  IF k = 0 THEN {rootId}
  ELSE LET W == Within(F, fail, rootId, k - 1)
       IN W \cup {n \in DOMAIN F \ fail : F[n].parents \cap W # {}}

DescProbed == probe.fn = "isDescendant"

\* C3: with every fetch succeeding, a node that is the root or has some chain
\* of 1..30 parent links to the root is accepted, whichever branch carries it.
C3_Reachability ==
  (DescProbed /\ failing = {}
     /\ probe.candidateId \in Within(files, {}, probe.rootId, MaxHops))
    => probe.ret = TRUE

\* a node with two parents whose shortest chain is exactly 30 links is accepted
C3_Witness ==
  /\ DescProbed /\ failing = {} /\ probe.ret = TRUE
  /\ probe.candidateId \in DOMAIN files
  /\ Cardinality(files[probe.candidateId].parents) >= 2
  /\ probe.candidateId \in Within(files, {}, probe.rootId, MaxHops)
  /\ probe.candidateId \notin Within(files, {}, probe.rootId, MaxHops - 1)

\* C4: a node other than the root whose shortest chain to the root has more
\* than 30 links, or that has no chain to the root, is refused.
C4_Boundedness ==
  (DescProbed /\ probe.candidateId # probe.rootId
     /\ probe.candidateId \notin Within(files, {}, probe.rootId, MaxHops))
    => probe.ret = FALSE

\* a node whose shortest chain is exactly 31 links is refused
C4_Witness ==
  /\ DescProbed /\ probe.ret = FALSE /\ failing = {}
  /\ probe.candidateId \in Within(files, {}, probe.rootId, MaxHops + 1)
  /\ probe.candidateId \notin Within(files, {}, probe.rootId, MaxHops)

\* C9: a failed fetch drops only its branch: a node with a chain of at most 30
\* links on which every fetched node (the candidate and its ancestors below the
\* root) can be fetched is accepted, and a node all of whose chains pass
\* through a node that cannot be fetched is refused.
C9_PerBranchFailure ==
  DescProbed =>
    /\ probe.candidateId \in Within(files, failing, probe.rootId, MaxHops)
         => probe.ret = TRUE
    /\ (probe.candidateId # probe.rootId
          /\ probe.candidateId \notin
               Within(files, failing, probe.rootId, Cardinality(DOMAIN files)))
         => probe.ret = FALSE

\* accepted although one of the candidate's parents cannot be fetched
C9_Witness ==
  /\ DescProbed /\ probe.ret = TRUE
  /\ probe.candidateId \in DOMAIN files
  /\ probe.candidateId # probe.rootId
  /\ probe.rootId \notin files[probe.candidateId].parents
  /\ files[probe.candidateId].parents \cap failing # {}

\* C14: with every fetch succeeding, every node the listing of an accepted
\* start emits is accepted by isDescendant.
C14_ListedAreAccepted ==
  (probe.fn = "listScoped" /\ failing = {}) =>
    \A i \in 1..Len(probe.ret) :
      isDescendant(files, failing, probe.ret[i].id, probe.rootId)

----------------------------------------------------------------------------
(* ListSpec: the listing called directly on a family of static stores.     *)
(* Node 0 is the root; every other node hangs from one or two nodes with   *)
(* smaller ids; WideStore has a root with ListPageSize + 1 children.       *)

ListRoot == 0

ParChoices(i) ==
  {S \in SUBSET (0..(i - 1)) : S # {} /\ Cardinality(S) <= 2}

RECURSIVE ParFuns(_)
ParFuns(n) ==
  IF n = 0 THEN {<<>>}
  ELSE {Append(f, S) : f \in ParFuns(n - 1), S \in ParChoices(n)}

\* nodes fileFrom.. are markdown files, the others folders; node 2 is in
\* the trash when trash2 holds
ListStore(n, par, fileFrom, trash2) ==
  [i \in 0..n |->
     IF i = ListRoot THEN Node(DRIVE_FOLDER_NAME, FOLDER, {}, FALSE, <<>>)
     ELSE Node(<<"x">>, IF i >= fileFrom THEN MARKDOWN ELSE FOLDER,
               par[i], trash2 /\ i = 2, <<>>)]

ListStores ==
  {ListStore(n, par, fileFrom, trash2) :
     n \in 2..ListNodes, par \in ParFuns(ListNodes),
     fileFrom \in {2, ListNodes, ListNodes + 1}, trash2 \in BOOLEAN}

WideStore ==
  [i \in 0..(ListPageSize + 1) |->
     IF i = ListRoot THEN Node(DRIVE_FOLDER_NAME, FOLDER, {}, FALSE, <<>>)
     ELSE Node(<<"x">>, MARKDOWN, {ListRoot}, FALSE, <<>>)]

\* root -> folder A -> file B
ExampleStore ==
  (0 :> Node(DRIVE_FOLDER_NAME, FOLDER, {}, FALSE, <<>>)
   @@ 1 :> Node(<<"x">>, FOLDER, {0}, FALSE, <<>>)
   @@ 2 :> Node(<<"x">>, MARKDOWN, {1}, FALSE, <<>>))

ListInit ==
  /\ files \in ListStores \cup {WideStore}
  /\ failing = {}
  /\ nextId = ListPageSize + 2
  /\ ServerIdle
  /\ probe = NoProbe
  /\ auth = AuthReady

\* the handler up to the answer: scope check of start, then the listing
ListCall ==
  /\ probe = NoProbe
  /\ \E start \in DOMAIN files \cap (0..ListNodes), maxDepth \in 1..MaxDepthArg :
       /\ isDescendant(files, failing, start, ListRoot)
       /\ probe' = [fn |-> "listScoped", start |-> start, maxDepth |-> maxDepth,
                    ret |-> listScoped(files, start, maxDepth)]
  /\ UNCHANGED <<files, failing, nextId, reqs, auth>>

ListNext == ListCall

ListSpec == ListInit /\ [][ListNext]_vars

\* the non-trashed direct children of id in store order: all of them, or the
\* first page of them
RefKids(F, id, paged) ==
  LET all == SetToSeq({c \in DOMAIN F : ~F[c].trashed /\ id \in F[c].parents})
  IN IF paged /\ Len(all) > ListPageSize
     THEN [i \in 1..ListPageSize |-> all[i]] ELSE all

RECURSIVE LevelKids(_, _, _)
LevelKids(F, level, paged) ==
  IF level = <<>> THEN <<>>
  ELSE RefKids(F, Head(level), paged) \o LevelKids(F, Tail(level), paged)

RECURSIVE RefListing(_, _, _, _, _)
\* the expansion level by level: the children of all nodes of level d, tagged
\* d, then the same for the folders among them while d + 1 < maxDepth
RefListing(F, level, d, maxDepth, paged) ==
  IF level = <<>> THEN <<>>
  ELSE LET kids == LevelKids(F, level, paged)
           tagged == [i \in 1..Len(kids) |-> [id |-> kids[i], depth |-> d]]
           nxt == IF d + 1 < maxDepth
                  THEN SelectSeq(kids, LAMBDA c : F[c].mimeType = FOLDER)
                  ELSE <<>>
       IN tagged \o RefListing(F, nxt, d + 1, maxDepth, paged)

ListProbed == probe.fn = "listScoped"

ListShape ==
  /\ \A i \in 1..Len(probe.ret) : probe.ret[i].depth < probe.maxDepth
  /\ \A i \in 1..(Len(probe.ret) - 1) :
       probe.ret[i].depth <= probe.ret[i + 1].depth
  /\ (files = ExampleStore /\ probe.start = ListRoot /\ probe.maxDepth = 2)
       => probe.ret = <<[id |-> 1, depth |-> 0], [id |-> 2, depth |-> 1]>>
  /\ (files = ExampleStore /\ probe.start = ListRoot /\ probe.maxDepth = 1)
       => probe.ret = <<[id |-> 1, depth |-> 0]>>

\* C5 as stated: the listing is the breadth-first expansion in which every
\* dequeued node contributes ALL its non-trashed direct children, tagged with
\* the depth of the node whose children are listed.
C5_ListsAllChildren ==
  ListProbed =>
    /\ probe.ret =
         RefListing(files, <<probe.start>>, 0, probe.maxDepth, FALSE)
    /\ ListShape

\* C5 amended: every dequeued node contributes the first page (at most 1000)
\* of its non-trashed direct children; depths are non-decreasing and below
\* maxDepth, and root -> A -> B lists [(A,0),(B,1)] with maxDepth 2 and
\* [(A,0)] with maxDepth 1.
C5_ListsFirstPage ==
  ListProbed =>
    /\ probe.ret =
         RefListing(files, <<probe.start>>, 0, probe.maxDepth, TRUE)
    /\ ListShape

\* a listing over two levels in which a node reached along two parents is
\* listed once per parent
C5_Witness ==
  /\ ListProbed /\ probe.maxDepth >= 2
  /\ \E i, j \in 1..Len(probe.ret) :
       /\ i < j /\ probe.ret[i].id = probe.ret[j].id
       /\ probe.ret[i].depth = 0 /\ probe.ret[j].depth = 1

----------------------------------------------------------------------------
(* The remote store as the server uses it (drive.files).  A call on an     *)
(* id that does not exist throws; delete removes a folder with all its     *)
(* descendants; a parent change that would close a cycle is refused (the   *)
(* store is a DAG).                                                        *)

NoSuchId == 0 - 1     \* an id no node ever has
Absent == 0 - 2       \* an optional id or number that was not given
NoText == <<>>        \* a name or content that was not given (or is '')
NoMime == ""          \* a mimeType that was not given

FirstPage(s, n) == SubSeq(s, 1, Min(Len(s), n))

RECURSIVE Down(_, _)
\* S and everything below S
Down(F, S) ==
  LET T == S \cup {c \in DOMAIN F : F[c].parents \cap S # {}}
  IN IF T = S THEN S ELSE Down(F, T)

\* drive.files.create({requestBody: {name, mimeType, parents}, media})
StoreCreate(F, nid, node) == F @@ (nid :> node)

\* drive.files.delete({fileId})
StoreDelete(F, id) == [n \in DOMAIN F \ Down(F, {id}) |-> F[n]]

\* drive.files.update({fileId, requestBody: {name}})
StoreRename(F, id, newName) == [F EXCEPT ![id].name = newName]

\* drive.files.update({fileId, requestBody: {name, mimeType}, media}): a
\* field that is undefined is left as it is
StoreUpdate(F, id, name, mimeType, content) ==
  [F EXCEPT ![id].name = IF name = NoText THEN @ ELSE name,
            ![id].mimeType = IF mimeType = NoMime THEN @ ELSE mimeType,
            ![id].body = IF content = NoText THEN @ ELSE content]

\* mutant: the previous parents are not removed
StoreSetParentsKeep(F, id, add, remove) ==
  [F EXCEPT ![id].parents = @ \cup {add}]

\* drive.files.update({fileId, addParents, removeParents})
StoreSetParents(F, id, add, remove) ==
  [F EXCEPT ![id].parents = (@ \ remove) \cup {add}]

SetParentsFails(F, id, add) ==
  id \notin DOMAIN F \/ add \notin DOMAIN F \/ add \in Down(F, {id})

----------------------------------------------------------------------------
(* ensureRootFolder (server.js 376-391)                                    *)

\* the folders the query name='...' and mimeType=folder and trashed=false
\* returns
RootFolders(F) ==
  {n \in DOMAIN F : /\ F[n].name = DRIVE_FOLDER_NAME
                    /\ F[n].mimeType = FOLDER
                    /\ ~F[n].trashed}

\* the folder files.create makes when the query returned nothing
NewRootFolder == Node(DRIVE_FOLDER_NAME, FOLDER, {}, FALSE, <<>>)

----------------------------------------------------------------------------
(* Search (GET /search 615-662, search_files 265-282)                      *)

Contains(text, q) ==
  \E i \in 0..(Len(text) - Len(q)) : SubSeq(text, i + 1, i + Len(q)) = q

LowerChar(c) == IF c = "R" THEN "r" ELSE IF c = "X" THEN "x" ELSE c

ToLowerCase(text) == [i \in 1..Len(text) |-> LowerChar(text[i])]

\* the kinds text is extracted from: the document type is exported; a type
\* that starts with text/ or includes json, markdown or csv is downloaded
Exported(mime) == mime = DOCUMENT

Downloaded(mime) == mime \in {MARKDOWN, "text/plain", "application/json", "text/csv"}

\* name contains '<q>' and trashed=false, one page
NameMatches(F, q) ==
  FirstPage(SetToSeq({n \in DOMAIN F : ~F[n].trashed /\ Contains(F[n].name, q)}),
            NamePageSize)

\* the name phase: the name matches that pass isDescendant
SearchFiltered(F, root, q) ==
  SelectSeq(NameMatches(F, q), LAMBDA n : isDescendant(F, {}, n, root))

\* the content phase: extras
SearchExtras(F, root, q) ==
  LET candidates ==
        FirstPage(SetToSeq({n \in DOMAIN F : ~F[n].trashed}), CandidatePageSize)
      Hit(c) ==
        /\ isDescendant(F, {}, c, root)
        /\ Exported(F[c].mimeType) \/ Downloaded(F[c].mimeType)
        /\ F[c].body # <<>>
        /\ Contains(ToLowerCase(F[c].body), ToLowerCase(q))
  IN SelectSeq(candidates, Hit)

\* GET /search
SearchRest(F, root, q, contentSearch) ==
  LET filtered == SearchFiltered(F, root, q)
      extras == SearchExtras(F, root, q)
  IN IF ~contentSearch THEN filtered
     ELSE filtered \o SelectSeq(extras, LAMBDA e : e \notin Range(filtered))

\* the search_files tool: contentSearch is declared in the schema and never
\* read by the handler
SearchTool(F, root, q, contentSearch) == SearchFiltered(F, root, q)

----------------------------------------------------------------------------
(* The drives the server starts on                                         *)

\* 0: the root folder; 1: a folder in it; 2: a text file in that folder;
\* 3: a file elsewhere in the drive
StoreA ==
  (0 :> Node(DRIVE_FOLDER_NAME, FOLDER, {}, FALSE, <<>>)
   @@ 1 :> Node(<<"r", "x">>, FOLDER, {0}, FALSE, <<>>)
   @@ 2 :> Node(<<"x">>, MARKDOWN, {1}, FALSE, <<"a", "R">>)
   @@ 3 :> Node(<<"r">>, MARKDOWN, {}, FALSE, <<"r">>))

\* the same drive after its owner put the root folder in the trash
StoreB ==
  [n \in DOMAIN StoreA |->
     IF n \in Down(StoreA, {0}) THEN [StoreA[n] EXCEPT !.trashed = TRUE]
     ELSE StoreA[n]]

FirstNewId == Cardinality(DOMAIN StoreA)

----------------------------------------------------------------------------
(* Requests.  A request record holds the arguments, the handler's local    *)
(* variables (root, previousParents, loop index, results) and the answer.  *)
(* Its last fields record what the request did: the ids that passed and    *)
(* failed isDescendant, the ids its store calls were issued on, whether    *)
(* the target existed when it was checked, the writes it applied, and for  *)
(* a move the parents of the item right before and right after its update. *)

Surfaces == {"rest", "mcp"}

Query == <<"r">>

NameArgs == {DRIVE_FOLDER_NAME, <<"x">>}

NoOut == [status |-> "", error |-> ""]

Req(op, surface, id, parentId, name, ids, depth, content) ==
  [pc |-> "idle", op |-> op, surface |-> surface, id |-> id,
   parentId |-> parentId, name |-> name, ids |-> ids, depth |-> depth,
   content |-> content, root |-> Absent, out |-> NoOut, results |-> <<>>,
   prev |-> {}, i |-> 1, checked |-> {}, failed |-> Absent, issued |-> {},
   miss |-> FALSE, wrote |-> {}, turns |-> <<>>, snap |-> <<>>,
   moved |-> {}]

Retired == [pc |-> "retired"]

IdArgs(F) == DOMAIN F \cup {NoSuchId}

OptIdArgs(F) == IdArgs(F) \cup {Absent}

\* the ids given in the lists of /batch-delete: the nodes the drive had at
\* the start, and an id that does not exist
BatchIdArgs(F) == {id \in IdArgs(F) : id < FirstNewId}

RECURSIVE SeqsUpTo(_, _)
SeqsUpTo(S, n) ==
  IF n = 0 THEN {<<>>}
  ELSE LET shorter == SeqsUpTo(S, n - 1)
       IN shorter \cup {Append(q, x) : q \in shorter, x \in S}

\* the routes of the REST surface and the tools of the MCP surface
RestInputs(F) ==
  {Req("list", "rest", Absent, p, NoText, <<>>, d, FALSE) :
     p \in OptIdArgs(F), d \in {Absent, 1}}
  \cup {Req(op, "rest", id, Absent, NoText, <<>>, Absent, FALSE) :
     op \in {"meta", "file", "delete"}, id \in IdArgs(F)}
  \cup {Req("upload", "rest", id, p, <<"x">>, <<>>, Absent, FALSE) :
     id \in OptIdArgs(F), p \in OptIdArgs(F)}
  \cup {Req("folder", "rest", Absent, p, n, <<>>, Absent, FALSE) :
     p \in OptIdArgs(F), n \in NameArgs}
  \cup {Req("move", "rest", id, p, NoText, <<>>, Absent, FALSE) :
     id \in IdArgs(F), p \in IdArgs(F)}
  \cup {Req("rename", "rest", id, Absent, n, <<>>, Absent, FALSE) :
     id \in IdArgs(F), n \in NameArgs}
  \cup {Req("batch", "rest", Absent, Absent, NoText, ids, Absent, FALSE) :
     ids \in SeqsUpTo(BatchIdArgs(F), MaxBatch)}
  \cup {Req("search", "rest", Absent, Absent, NoText, <<>>, Absent, c) :
     c \in BOOLEAN}

McpInputs(F) ==
  {[r EXCEPT !.surface = "mcp"] :
     r \in {q \in RestInputs(F) : q.op \notin {"meta", "batch"}}}

\* the requests served while another request is in flight
RaceInputs(F) ==
  {r \in RestInputs(F) \cup McpInputs(F) :
     r.op \in {"delete", "rename", "move", "folder"}}

Inputs(F, sequential) ==
  IF sequential THEN RestInputs(F) \cup McpInputs(F) ELSE RaceInputs(F)

\* the early returns with status 400 of the REST routes
BadRequest(r) ==
  /\ r.surface = "rest"
  /\ \/ r.op = "upload" /\ r.name = NoText /\ r.id = Absent
     \/ r.op = "folder" /\ r.name = NoText
     \/ r.op = "move" /\ (r.id = Absent \/ r.parentId = Absent)
     \/ r.op = "rename" /\ (r.id = Absent \/ r.name = NoText)
     \/ r.op = "batch" /\ r.ids = <<>>

\* res.status(403).json({error}) / {content: 'Error: ...', isError: true}
Denial(surface, error) ==
  [status |-> IF surface = "rest" THEN "403" ELSE "isError", error |-> error]

\* the catch blocks: res.status(500).json({error: err.message}) / isError
Failure(surface, message) ==
  [status |-> IF surface = "rest" THEN "500" ELSE "isError", error |-> message]

Success(surface) ==
  [status |-> IF surface = "rest" THEN "200" ELSE "content", error |-> ""]

NotFoundMessage == "File not found"

\* const parent = parentId || root; const start = req.query.parentId || root
ParentOf(r) == IF r.parentId = Absent THEN r.root ELSE r.parentId

\* parseInt(req.query.depth || '4', 10)
MaxDepthOf(r) == IF r.depth = Absent THEN DefaultDepth ELSE r.depth

\* mutant: a move checks only the item, not the new parent
ScopeChecksMoveTargetOnly(r) ==
  CASE r.op \in {"list", "folder"} ->
         <<[id |-> ParentOf(r),
            error |-> IF r.op = "list" THEN "Not allowed" ELSE "Parent not allowed"]>>
    [] r.op \in {"meta", "file", "rename", "delete"} ->
         <<[id |-> r.id, error |-> "Not allowed"]>>
    [] r.op = "upload" ->
         <<[id |-> ParentOf(r), error |-> "Parent not allowed"]>>
         \o (IF r.id # Absent
             THEN <<[id |-> r.id, error |-> "Target not allowed"]>> ELSE <<>>)
    [] r.op = "move" -> <<[id |-> r.id, error |-> "Not allowed"]>>
    [] OTHER -> <<>>

\* the isDescendant checks a handler makes before its store call, in order,
\* each with the error of its denial
ScopeChecks(r) ==
  CASE r.op \in {"list", "folder"} ->
         <<[id |-> ParentOf(r),
            error |-> IF r.op = "list" THEN "Not allowed" ELSE "Parent not allowed"]>>
    [] r.op \in {"meta", "file", "rename", "delete"} ->
         <<[id |-> r.id, error |-> "Not allowed"]>>
    [] r.op = "upload" ->
         <<[id |-> ParentOf(r), error |-> "Parent not allowed"]>>
         \o (IF r.id # Absent
             THEN <<[id |-> r.id, error |-> "Target not allowed"]>> ELSE <<>>)
    [] r.op = "move" ->
         <<[id |-> r.id, error |-> "Not allowed"],
           [id |-> r.parentId, error |-> "Not allowed"]>>
    [] OTHER -> <<>>

\* the ids of the request that the store calls after the checks act on
TouchedArgs(r) ==
  CASE r.op \in {"list", "folder"} -> {ParentOf(r)}
    [] r.op \in {"meta", "file", "rename", "delete"} -> {r.id}
    [] r.op = "upload" -> IF r.id # Absent THEN {r.id} ELSE {ParentOf(r)}
    [] r.op = "move" -> {r.id, r.parentId}
    [] OTHER -> {}

\* reachable from a folder that ensureRootFolder would resolve now
InTree(F, id) == \E root \in RootFolders(F) : id \in Down(F, {root})

Write(F, kind, ids) == [kind |-> kind, inTree |-> \A id \in ids : InTree(F, id)]

----------------------------------------------------------------------------
(* The handlers after their scope checks                                   *)

UploadContent == <<"r">>

CycleMessage == "Cannot create a cycle"

Finish(r, out) == [r EXCEPT !.pc = "done", !.out = out]

Outcome(F, nid, r) == [files |-> F, nextId |-> nid, req |-> r]

\* a store call that changed the store to F2, then the answer
Applied(F, F2, nid2, r, kind, ids) ==
  Outcome(F2, nid2,
          [Finish(r, Success(r.surface)) EXCEPT !.wrote = @ \cup {Write(F, kind, ids)}])

\* a store call that threw: the catch block answers
Threw(F, nid, r, message) == Outcome(F, nid, Finish(r, Failure(r.surface, message)))

\* mutant: the first id that is not deleted ends the loop
BatchAfterStopOnFailure(i, n, entry) == IF entry.ok THEN i + 1 ELSE n + 1

\* for (const id of ids): the index of the next turn
BatchAfter(i, n, entry) == i + 1

\* one turn of the loop of /batch-delete: check, delete, push the entry
BatchTurn(F, nid, r) ==
  LET id == r.ids[r.i]
      passes == isDescendant(F, {}, id, r.root)
      deletes == passes /\ id \in DOMAIN F
      entry == IF ~passes THEN [id |-> id, ok |-> FALSE, reason |-> "not allowed"]
               ELSE IF deletes THEN [id |-> id, ok |-> TRUE, reason |-> ""]
               ELSE [id |-> id, ok |-> FALSE, reason |-> NotFoundMessage]
      F2 == IF deletes THEN StoreDelete(F, id) ELSE F
      scope == Within(F, {}, r.root, MaxHops)
      turn == [passes |-> passes,
               inScope |-> id \in DOMAIN F /\ id \in scope,
               refused |-> id \notin scope,
               removed |-> id \in DOMAIN F /\ id \notin DOMAIN F2,
               unchanged |-> F2 = F]
      next == BatchAfter(r.i, Len(r.ids), entry)
      r2 == [r EXCEPT !.results = Append(@, entry),
                      !.turns = Append(@, turn),
                      !.i = next,
                      !.checked = IF passes THEN @ \cup {id} ELSE @,
                      !.issued = IF passes THEN @ \cup {id} ELSE @,
                      !.wrote = IF deletes THEN @ \cup {Write(F, "delete", {id})}
                                ELSE @]
  IN Outcome(F2, nid,
             IF next > Len(r.ids) THEN Finish(r2, Success(r.surface)) ELSE r2)

\* the store calls of a handler whose checks have passed
Serve(F, nid, r0) ==
  LET r == [r0 EXCEPT !.issued = @ \cup TouchedArgs(r0)]
      parent == ParentOf(r)
  IN CASE r.op = "list" ->
            Outcome(F, nid, [Finish(r, Success(r.surface)) EXCEPT
                               !.results = listScoped(F, parent, MaxDepthOf(r))])
       [] r.op \in {"meta", "file"} ->
            IF r.id \in DOMAIN F THEN Outcome(F, nid, Finish(r, Success(r.surface)))
            ELSE Threw(F, nid, r, NotFoundMessage)
       [] r.op = "upload" ->
            IF r.id # Absent
            THEN IF r.id \in DOMAIN F
                 THEN Applied(F, StoreUpdate(F, r.id, r.name, NoMime, UploadContent),
                              nid, r, "update", {r.id})
                 ELSE Threw(F, nid, r, NotFoundMessage)
            ELSE IF parent \in DOMAIN F
                 THEN Applied(F, StoreCreate(F, nid,
                                 Node(r.name, MARKDOWN, {parent}, FALSE, UploadContent)),
                              nid + 1, r, "create", {parent})
                 ELSE Threw(F, nid, r, NotFoundMessage)
       [] r.op = "folder" ->
            IF parent \in DOMAIN F
            THEN Applied(F, StoreCreate(F, nid,
                            Node(r.name, FOLDER, {parent}, FALSE, <<>>)),
                         nid + 1, r, "create", {parent})
            ELSE Threw(F, nid, r, NotFoundMessage)
       [] r.op = "move" ->
            IF r.id \in DOMAIN F
            THEN Outcome(F, nid, [r EXCEPT !.pc = "update", !.prev = F[r.id].parents])
            ELSE Threw(F, nid, r, NotFoundMessage)
       [] r.op = "rename" ->
            IF r.id \in DOMAIN F
            THEN Applied(F, StoreRename(F, r.id, r.name), nid, r, "update", {r.id})
            ELSE Threw(F, nid, r, NotFoundMessage)
       [] r.op = "delete" ->
            IF r.id \in DOMAIN F
            THEN Applied(F, StoreDelete(F, r.id), nid, r, "delete", {r.id})
            ELSE Threw(F, nid, r, NotFoundMessage)
       [] r.op = "batch" -> BatchTurn(F, nid, r)
       [] r.op = "search" ->
            Outcome(F, nid, [Finish(r, Success(r.surface)) EXCEPT
                               !.results =
                                 IF r.surface = "rest"
                                 THEN SearchRest(F, r.root, Query, r.content)
                                 ELSE SearchTool(F, r.root, Query, r.content)])

\* the second store call of a move: update with addParents, removeParents
MoveUpdate(F, nid, r) ==
  IF r.id \notin DOMAIN F \/ r.parentId \notin DOMAIN F
  THEN Threw(F, nid, r, NotFoundMessage)
  ELSE IF SetParentsFails(F, r.id, r.parentId)
  THEN Threw(F, nid, r, CycleMessage)
  ELSE LET F2 == StoreSetParents(F, r.id, r.parentId, r.prev)
            o == Applied(F, F2, nid, r, "move", {r.id, r.parentId})
       IN [o EXCEPT !.req.moved = {[at |-> F[r.id].parents,
                                    after |-> F2[r.id].parents]}]

----------------------------------------------------------------------------
(* The server: requests arrive, resolve the root, check, act.              *)

Init ==
  /\ files \in {StoreA, StoreB}
  /\ failing = {}
  /\ nextId = FirstNewId
  /\ ServerIdle
  /\ probe = NoProbe
  /\ auth = AuthReady

\* a request arrives: the early returns, getDrive, then ensureRootFolder (its
\* own getDrive and its query)
Start(s, sequential) ==
  /\ reqs[s].pc = "idle"
  /\ \A t \in Slots : t < s => reqs[t].pc # "idle"
  /\ sequential => \A t \in Slots : t < s => reqs[t].pc \in {"done", "retired"}
  /\ \E r \in Inputs(files, sequential) :
       LET r0 == [r EXCEPT !.snap = IF sequential THEN files ELSE <<>>]
           others == [t \in Slots |->
                        IF reqs[t].pc = "done" THEN Retired ELSE reqs[t]]
       IN IF BadRequest(r)
          THEN /\ reqs' = [others EXCEPT ![s] =
                             Finish(r0, [status |-> "400", error |-> "Missing"])]
               /\ auth' = auth
          ELSE /\ auth' = getDrive(getDrive(auth))
               /\ IF RootFolders(files) = {}
                  THEN reqs' = [others EXCEPT ![s] = [r0 EXCEPT !.pc = "create root"]]
                  ELSE \E root \in RootFolders(files) :
                         reqs' = [others EXCEPT ![s] =
                                    [r0 EXCEPT !.pc = "check", !.root = root]]
  /\ UNCHANGED <<files, failing, nextId, probe>>

\* ensureRootFolder found no folder: files.create
CreateRoot(s) ==
  /\ reqs[s].pc = "create root"
  /\ files' = StoreCreate(files, nextId, NewRootFolder)
  /\ nextId' = nextId + 1
  /\ reqs' = [reqs EXCEPT ![s] =
                [@ EXCEPT !.pc = "check", !.root = nextId,
                          !.wrote = @ \cup {[kind |-> "create root", inTree |-> TRUE]}]]
  /\ UNCHANGED <<failing, probe, auth>>

\* the isDescendant checks of the handler, in order; the first that fails
\* ends the request with its denial
Check(s) ==
  /\ reqs[s].pc = "check"
  /\ LET r == reqs[s]
         checks == ScopeChecks(r)
         bad == {i \in 1..Len(checks) :
                   ~isDescendant(files, failing, checks[i].id, r.root)}
         passed == IF bad = {} THEN Len(checks)
                   ELSE (CHOOSE i \in bad : \A j \in bad : i <= j) - 1
         r1 == [r EXCEPT !.miss = r.id # Absent /\ r.id \notin DOMAIN files,
                         !.checked = {checks[j].id : j \in 1..passed}]
     IN reqs' = [reqs EXCEPT ![s] =
                   IF bad = {} THEN [r1 EXCEPT !.pc = "act"]
                   ELSE Finish([r1 EXCEPT !.failed = checks[passed + 1].id],
                               Denial(r.surface, checks[passed + 1].error))]
  /\ UNCHANGED <<files, failing, nextId, probe, auth>>

\* the store call after the checks (one turn of the loop for /batch-delete)
Act(s) ==
  /\ reqs[s].pc = "act"
  /\ LET o == Serve(files, nextId, reqs[s])
     IN /\ files' = o.files
        /\ nextId' = o.nextId
        /\ reqs' = [reqs EXCEPT ![s] = o.req]
  /\ UNCHANGED <<failing, probe, auth>>

\* the update of a move, after its read of the current parents
Update(s) ==
  /\ reqs[s].pc = "update"
  /\ LET o == MoveUpdate(files, nextId, reqs[s])
     IN /\ files' = o.files
        /\ nextId' = o.nextId
        /\ reqs' = [reqs EXCEPT ![s] = o.req]
  /\ UNCHANGED <<failing, probe, auth>>

Next ==
  \E s \in Slots :
    Start(s, FALSE) \/ CreateRoot(s) \/ Check(s) \/ Act(s) \/ Update(s)

Spec == Init /\ [][Next]_vars

SeqNext ==
  \E s \in Slots :
    Start(s, TRUE) \/ CreateRoot(s) \/ Check(s) \/ Act(s) \/ Update(s)

SeqSpec == Init /\ [][SeqNext]_vars

\* the item the interleaved moves are about: the file in the folder
MovedItem ==
  CHOOSE n \in DOMAIN StoreA :
    StoreA[n].mimeType = MARKDOWN /\ StoreA[n].parents # {}

\* POST /move and the move_item tool on the same item, with any new parent,
\* interleaving with each other
MoveStart(s) ==
  Start(s, FALSE) /\ reqs'[s].op = "move" /\ reqs'[s].id = MovedItem

MoveNext ==
  \E s \in Slots :
    MoveStart(s) \/ CreateRoot(s) \/ Check(s) \/ Act(s) \/ Update(s)

MoveSpec == Init /\ [][MoveNext]_vars

----------------------------------------------------------------------------
(* TokSpec: the token file under authentication, getDrive calls and the    *)
(* 'tokens' events of the credential client.                               *)

\* most handlers registered in one behaviour
MaxHandlers == 3

\* most 'tokens' events in one behaviour
MaxEvents == 3

TokInit ==
  /\ files = StoreA
  /\ failing = {}
  /\ nextId = FirstNewId
  /\ ServerIdle
  /\ probe = NoProbe
  /\ auth \in {[AuthReady EXCEPT !.file = t] :
                 t \in {NoTokens, AuthReady.file,
                        [f \in {"access_token", "expiry_date"} |-> 1]}}

\* a request reaches getDrive: it throws without a token file, and adds a
\* handler otherwise
TokGetDrive ==
  /\ getStoredTokens(auth) # NoTokens
  /\ auth.handlers < MaxHandlers
  /\ auth' = getDrive(auth)
  /\ UNCHANGED <<files, failing, nextId, reqs, probe>>

\* GET /oauth2callback: storeTokens(tokens), then ensureRootFolder with its
\* getDrive
OAuthCallback ==
  /\ auth.handlers < MaxHandlers
  /\ \E tokens \in TokenRecords :
       auth' = [getDrive(storeTokens(auth, tokens)) EXCEPT
                  !.prev = NoTokens, !.event = NoTokens,
                  !.accessOnly = 0, !.kept = 0]
  /\ IF RootFolders(files) = {}
     THEN /\ files' = StoreCreate(files, nextId, NewRootFolder)
          /\ nextId' = nextId + 1
     ELSE UNCHANGED <<files, nextId>>
  /\ UNCHANGED <<failing, reqs, probe>>

\* the credential client emits 'tokens': every registered handler runs
TokensEvent ==
  /\ auth.handlers >= 1
  /\ auth.events < MaxEvents
  /\ \E toks \in TokenRecords :
       LET only == DOMAIN toks = {"access_token"}
           had == IF "refresh_token" \in DOMAIN auth.file
                  THEN auth.file["refresh_token"] ELSE 0
       IN auth' = [Emit(auth, toks, auth.handlers) EXCEPT
                     !.prev = auth.file, !.event = toks,
                     !.events = @ + 1,
                     !.accessOnly = IF only THEN @ + 1 ELSE 0,
                     !.kept = IF ~only THEN 0
                              ELSE IF auth.accessOnly = 0 THEN had ELSE @]
  /\ UNCHANGED <<files, failing, nextId, reqs, probe>>

TokNext == TokGetDrive \/ OAuthCallback \/ TokensEvent

TokSpec == TokInit /\ [][TokNext]_vars

\* C11: after a 'tokens' event the token file holds every field the event
\* carried, with the event's value, and every field of the file as it was
\* before that the event did not carry, unchanged; a refresh token stored
\* before a run of events that carry only an access token is still stored.
C11_RefreshMerges ==
  auth.event # NoTokens =>
    /\ auth.file # NoTokens
    /\ \A f \in DOMAIN auth.event :
         f \in DOMAIN auth.file /\ auth.file[f] = auth.event[f]
    /\ \A f \in DOMAIN auth.prev \ DOMAIN auth.event :
         f \in DOMAIN auth.file /\ auth.file[f] = auth.prev[f]
    /\ DOMAIN auth.file = DOMAIN auth.prev \cup DOMAIN auth.event
    /\ (auth.accessOnly > 0 /\ auth.kept # 0) =>
         /\ "refresh_token" \in DOMAIN auth.file
         /\ auth.file["refresh_token"] = auth.kept

\* several handlers registered, and the refresh token still stored after two
\* events that carried only a new access token
C11_Witness ==
  /\ auth.handlers >= 2
  /\ auth.accessOnly >= 2
  /\ auth.kept = 2
  /\ auth.file # NoTokens
  /\ "refresh_token" \in DOMAIN auth.file
  /\ auth.file["refresh_token"] = 2
  /\ auth.file["access_token"] # auth.prev["access_token"]

----------------------------------------------------------------------------
(* TermSpec: the two loops run one iteration per step, on stores whose     *)
(* parent links are arbitrary: cycles, self-loops, several paths to a node. *)

\* the stores of TermSpec have TermNodes folders besides the root
TermNodes == 2

TermRoot == 0

TermParChoices == {S \in SUBSET (0..TermNodes) : Cardinality(S) <= 2}

TermStores ==
  {[i \in 0..TermNodes |->
      IF i = TermRoot THEN Node(DRIVE_FOLDER_NAME, FOLDER, {}, FALSE, <<>>)
      ELSE Node(<<"x">>, FOLDER, par[i], FALSE, <<>>)] :
     par \in [1..TermNodes -> TermParChoices]}

TermInit ==
  /\ files \in TermStores
  /\ failing \in {{}, {1}}
  /\ nextId = TermNodes + 1
  /\ ServerIdle
  /\ probe = NoProbe
  /\ auth = AuthReady

\* if (candidateId === rootId) return true; let toCheck = [candidateId]
DescEnter ==
  /\ probe = NoProbe
  /\ \E c \in DOMAIN files \cup {TermNodes + 1} :
       probe' = [fn |-> "isDescendant", candidateId |-> c, rootId |-> TermRoot,
                 pc |-> IF c = TermRoot THEN "done" ELSE "loop",
                 toCheck |-> {c}, depth |-> 0, ret |-> (c = TermRoot)]
  /\ UNCHANGED <<files, failing, nextId, reqs, auth>>

\* one iteration of for (let depth = 0; depth < 30; depth++), or its exit
DescLevel ==
  /\ probe # NoProbe /\ probe.fn = "isDescendant" /\ probe.pc = "loop"
  /\ LET fetched == {id \in probe.toCheck : ~GetParentsFails(files, failing, id)}
         next == UNION {files[id].parents : id \in fetched}
     IN probe' =
          IF probe.depth >= MaxHops
          THEN [probe EXCEPT !.pc = "done", !.ret = FALSE]
          ELSE IF probe.rootId \in next
          THEN [probe EXCEPT !.pc = "done", !.ret = TRUE]
          ELSE IF next = {}
          THEN [probe EXCEPT !.pc = "done", !.ret = FALSE]
          ELSE [probe EXCEPT !.toCheck = next, !.depth = @ + 1]
  /\ UNCHANGED <<files, failing, nextId, reqs, auth>>

\* mutant: a folder is queued whatever its depth
ListPushesNoDepthTest(F, list, node, maxDepth) ==
  LET pushed == SelectSeq(list, LAMBDA c : F[c].mimeType = FOLDER)
  IN [i \in 1..Len(pushed) |-> [id |-> pushed[i], depth |-> node.depth + 1]]

\* the queue.push calls of one iteration
ListPushes(F, list, node, maxDepth) ==
  LET pushed == SelectSeq(list, LAMBDA c :
                  F[c].mimeType = FOLDER /\ node.depth + 1 < maxDepth)
  IN [i \in 1..Len(pushed) |-> [id |-> pushed[i], depth |-> node.depth + 1]]

\* the handler after its scope check: queue = [{id: start, depth: 0}]
ListEnter ==
  /\ probe = NoProbe
  /\ \E start \in DOMAIN files, maxDepth \in (0 - 1)..MaxDepthArg :
       /\ isDescendant(files, failing, start, TermRoot)
       /\ probe' = [fn |-> "list", start |-> start, maxDepth |-> maxDepth,
                    pc |-> "loop", queue |-> <<[id |-> start, depth |-> 0]>>,
                    results |-> <<>>, steps |-> 0]
  /\ UNCHANGED <<files, failing, nextId, reqs, auth>>

\* one iteration of while (queue.length), or its exit
ListDequeue ==
  /\ probe # NoProbe /\ probe.fn = "list" /\ probe.pc = "loop"
  /\ probe' =
       IF probe.queue = <<>> THEN [probe EXCEPT !.pc = "done"]
       ELSE LET node == Head(probe.queue)
                list == ListChildren(files, node.id)
                emitted == [i \in 1..Len(list) |->
                              [id |-> list[i], depth |-> node.depth]]
            IN [probe EXCEPT
                  !.queue = Tail(@) \o ListPushes(files, list, node, probe.maxDepth),
                  !.results = @ \o emitted,
                  !.steps = @ + 1]
  /\ UNCHANGED <<files, failing, nextId, reqs, auth>>

TermNext == DescEnter \/ DescLevel \/ ListEnter \/ ListDequeue

\* an awaited call resumes: the event loop runs every pending continuation
TermSpec == TermInit /\ [][TermNext]_vars /\ WF_vars(TermNext)

RECURSIVE Power(_, _)
Power(b, n) == IF n <= 0 THEN 1 ELSE b * Power(b, n - 1)

RECURSIVE Geometric(_, _)
\* 1 + b + ... + b^(n-1)
Geometric(b, n) == IF n <= 0 THEN 0 ELSE Power(b, n - 1) + Geometric(b, n - 1)

TermBounded ==
  /\ (probe # NoProbe /\ probe.fn = "isDescendant") =>
       /\ probe.depth <= MaxHops
       /\ probe.pc = "done" =>
            /\ probe.ret \in BOOLEAN
            /\ probe.ret = isDescendant(files, failing, probe.candidateId,
                                        probe.rootId)
  /\ (probe # NoProbe /\ probe.fn = "list") =>
       LET cap == IF probe.maxDepth > 1 THEN probe.maxDepth ELSE 1
       IN /\ \A i \in 1..Len(probe.queue) :
               probe.queue[i].depth >= 0 /\ probe.queue[i].depth < cap
          /\ probe.steps <= Geometric(Cardinality(DOMAIN files), cap)
          /\ probe.pc = "done" =>
               /\ probe.queue = <<>>
               /\ probe.results = listScoped(files, probe.start, probe.maxDepth)

TermDone == probe # NoProbe /\ probe.pc = "done"

\* C13: isDescendant never starts a level beyond the 30th and the queue of
\* the listing never holds a pair of depth max(maxDepth, 1) or more, on any
\* store graph; and every call of either loop comes to its return.
C13_Termination == []TermBounded /\ <>TermDone

\* the listing has returned on a store with a cycle below the root, having
\* listed a node twice
C13_Witness ==
  /\ TermDone /\ probe.fn = "list"
  /\ 1 \in files[2].parents /\ 2 \in files[1].parents
  /\ \E i, j \in 1..Len(probe.results) :
       /\ i < j /\ probe.results[i].id = probe.results[j].id
       /\ probe.results[i].depth + 2 = probe.results[j].depth

----------------------------------------------------------------------------
(* Properties of the server                                                *)

Live(r) == r.pc \notin {"idle", "retired"}

IsDenial(r) ==
  r.out \in {Denial(r.surface, e) :
               e \in {"Not allowed", "Parent not allowed", "Target not allowed"}}

NotAllowedEntry(id) == [id |-> id, ok |-> FALSE, reason |-> "not allowed"]

\* some isDescendant check of the request returned false
CheckFailed(r) ==
  r.failed # Absent \/ \E i \in 1..Len(r.turns) : ~r.turns[i].passes

\* the store is as it was when the request arrived, but for a root folder
\* that ensureRootFolder created because there was none
UnchangedButRoot(r) ==
  LET new == DOMAIN files \ DOMAIN r.snap
  IN /\ DOMAIN r.snap \subseteq DOMAIN files
     /\ \A n \in DOMAIN r.snap : files[n] = r.snap[n]
     /\ new \subseteq {r.root}
     /\ new # {} => RootFolders(r.snap) = {} /\ files[r.root] = NewRootFolder

\* C1 as stated: a store call on an id of the request is issued only after
\* isDescendant returned true for that id in the same request, and when a
\* check returns false the request ends with a denial and has left the store
\* unchanged.
C1_DenialLeavesStoreUnchanged ==
  \A s \in Slots :
    LET r == reqs[s]
    IN Live(r) =>
         /\ r.issued \subseteq r.checked
         /\ (CheckFailed(r) /\ r.pc = "done") => IsDenial(r) /\ files = r.snap

\* C1 amended: store calls only on checked ids; a failed check of a single
\* operation ends the request with a denial, the store being unchanged but for
\* the root folder ensureRootFolder may have created; a failed check of one id
\* of /batch-delete makes that id's entry 'not allowed' and its turn leaves
\* the store unchanged.
C1_ChecksBeforeCalls ==
  \A s \in Slots :
    LET r == reqs[s]
    IN Live(r) =>
         /\ r.issued \subseteq r.checked
         /\ r.failed # Absent =>
              r.pc = "done" /\ IsDenial(r) /\ UnchangedButRoot(r)
         /\ \A i \in 1..Len(r.turns) :
              ~r.turns[i].passes =>
                r.results[i] = NotAllowedEntry(r.ids[i]) /\ r.turns[i].unchanged

\* a request on an existing node denied after ensureRootFolder had to create
\* the root folder
C1_Witness ==
  \E s \in Slots :
    LET r == reqs[s]
    IN /\ Live(r) /\ r.pc = "done" /\ IsDenial(r)
       /\ r.failed \in DOMAIN r.snap
       /\ r.root \in DOMAIN files \ DOMAIN r.snap

\* C2: every write the server applies has its target (and its destination
\* parent) reachable from the root in the store as it is at that moment.
C2_WritesConfined ==
  \A s \in Slots :
    Live(reqs[s]) => \A w \in reqs[s].wrote : w.inTree

\* C6: a search without content search returns only non-trashed in-scope
\* nodes whose name contains the query; an in-scope non-trashed text file
\* whose body, not its name, contains the query is in the result exactly when
\* content search was requested, on both surfaces.
C6_SearchPhases ==
  \A s \in Slots :
    LET r == reqs[s]
        scope == IF Live(r) THEN Within(files, {}, r.root, MaxHops) ELSE {}
    IN (Live(r) /\ r.op = "search" /\ r.pc = "done") =>
         /\ ~r.content =>
              \A n \in Range(r.results) :
                ~files[n].trashed /\ Contains(files[n].name, Query) /\ n \in scope
         /\ \A n \in DOMAIN files \cap scope :
              ( /\ ~files[n].trashed
                /\ files[n].mimeType = MARKDOWN
                /\ ~Contains(files[n].name, Query)
                /\ Contains(ToLowerCase(files[n].body), Query) )
              => (n \in Range(r.results) <=> r.content)

\* C7: /batch-delete answers with one entry per id, in order; an id in scope
\* at its turn is deleted and reported ok; an id out of scope at its turn is
\* reported 'not allowed' and its turn leaves the store alone; what was
\* deleted stays deleted.
C7_BatchPartialFailure ==
  \A s \in Slots :
    LET r == reqs[s]
    IN (Live(r) /\ r.op = "batch" /\ r.pc = "done" /\ r.ids # <<>>) =>
         /\ r.out = Success(r.surface)
         /\ Len(r.results) = Len(r.ids)
         /\ \A i \in 1..Len(r.ids) :
              /\ r.results[i].id = r.ids[i]
              /\ r.turns[i].inScope =>
                   /\ r.results[i] = [id |-> r.ids[i], ok |-> TRUE, reason |-> ""]
                   /\ r.turns[i].removed
              /\ r.turns[i].refused =>
                   r.results[i] = NotAllowedEntry(r.ids[i]) /\ r.turns[i].unchanged
              /\ r.results[i].ok => r.ids[i] \notin DOMAIN files

\* an id deleted after an earlier id of the list was refused
C7_Witness ==
  \E s \in Slots :
    LET r == reqs[s]
    IN /\ Live(r) /\ r.op = "batch" /\ r.pc = "done" /\ Len(r.results) = 2
       /\ r.results[1] = NotAllowedEntry(r.ids[1])
       /\ r.ids[1] \in DOMAIN files
       /\ r.results[2].ok /\ r.ids[2] \notin DOMAIN files

\* the answer to an operation on an existing id outside the root's subtree
ScopeViolationOutcome(r) ==
  Denial(r.surface, IF r.op = "upload" THEN "Target not allowed" ELSE "Not allowed")

\* C8: an operation on an id that does not exist is answered differently
\* from the same operation on an existing id outside the root's subtree.
C8_NotFoundDistinct ==
  \A s \in Slots :
    LET r == reqs[s]
    IN ( /\ Live(r) /\ r.pc = "done" /\ r.miss
         /\ r.op \in {"file", "meta", "rename", "move", "delete", "upload"} )
       => r.out # ScopeViolationOutcome(r)

\* C10: the server has created at most one top-level folder with the root
\* name, and the requests in flight hold the same root id.
C10_RootUnique ==
  /\ Cardinality({n \in RootFolders(files) :
                    n >= FirstNewId /\ files[n].parents = {}}) <= 1
  /\ \A s, t \in Slots :
       ( /\ Live(reqs[s]) /\ Live(reqs[t])
         /\ reqs[s].root # Absent /\ reqs[t].root # Absent
         /\ reqs[s].pc # "done" /\ reqs[t].pc # "done" )
       => reqs[s].root = reqs[t].root

\* C12: with one request at a time, a request that follows a request which
\* resolved the root to R resolves the root to R as well, without creating a
\* folder, whatever the earlier request did.
C12_RootStable ==
  [][\A s, t \in Slots :
       ( /\ reqs[t].pc = "done" /\ reqs[t].root # Absent
         /\ reqs[s].pc = "idle"
         /\ reqs'[s].pc \in {"check", "create root"} )
       => (reqs'[s].pc = "check" /\ reqs'[s].root = reqs[t].root)]_vars

====
